---- MODULE Spec2Model ----
(***************************************************************************)
(* Neighbor finding in alansartorio/ss.                                    *)
(*                                                                         *)
(*   TP1/cim-implementation/src/main.rs  brute-force finder, NeighborMap,  *)
(*                                       its textual serialization         *)
(*   TP2/tp2/src/bin/simulation.rs       the Vicsek loop that calls the    *)
(*                                       cell-index finder every tick      *)
(*                                                                         *)
(* Coordinates, radii and cutoffs are f64 in the source.  Here they are    *)
(* integers, and a comparison "distance - r1 - r2 <= r_c" is decided       *)
(* exactly on the squares, so the inclusive boundary is an exact case.     *)
(***************************************************************************)
EXTENDS Integers, Sequences, FiniteSets, TLC

VARIABLES
    pc,         \* position of the program under analysis
    particles,  \* TP1 ParticlesData.particles: sequence of [id, x, y, radius]
    r_c,        \* TP1 ParticlesData.r_c
    map,        \* TP1 NeighborMap.map : HashMap<ID, Vec<ID>>
    output,     \* stdout: the characters TP1 prints, the frames TP2 prints
    info,       \* the SystemInfo of a direct find_neighbors call
    neighbors,  \* the result of the last find_neighbors call (TP2 run: `neighbors`)
    config,     \* TP2 InputData: space_length, interaction_radius, noise
    state,      \* TP2 run: `state`, BTreeMap from id to Particle
    new_state,  \* TP2 run: `new_state`, the map one iteration of `loop` fills
    time,       \* TP2 run: `time`
    mesh_size,  \* mesh Model.mesh_size
    mesh_model, \* mesh Model.mesh_model: the edge arrays and the link forces
    file,       \* pool output_parser: the lines of the file read
    inner,      \* pool Chunks.inner: the lines not yet taken
    yielded     \* pool Chunks: the values next() has returned

tp1vars == <<particles, r_c, map, output>>
tp2vars == <<config, state, new_state, time>>
meshvars == <<mesh_size, mesh_model>>
parservars == <<file, inner, yielded>>
vars == <<pc, particles, r_c, map, output, info, neighbors, config, state, new_state, time,
          mesh_size, mesh_model, file, inner, yielded>>

----------------------------------------------------------------------------
(* Bounds of the model *)

\* largest number of particles in an input
MaxN == 3
\* largest number of direct add_pair calls on one map
MaxCalls == 3
\* largest number of ticks of the Vicsek loop
MaxTicks == 2
\* significant binary digits of a number (f64: 53)
SignificandBits == 3

\* particle ids (usize); 12 makes to_string produce more than one digit
IdPool == {1, 2, 12}
\* positions, radii and cutoffs of the brute-force inputs
Positions == {<<0, 0>>, <<1, 0>>, <<1, 1>>}
Radii == {0, 1}
Cutoffs == {-1, 0, 1}

----------------------------------------------------------------------------
(* Particle, ParticlesData *)

Particle(id, x, y, radius) == [id |-> id, x |-> x, y |-> y, radius |-> radius]

ParticleValues ==
    { Particle(id, p[1], p[2], r) : id \in IdPool, p \in Positions, r \in Radii }

RECURSIVE SeqsOfLen(_, _)
SeqsOfLen(S, n) ==
    IF n = 0 THEN { <<>> }
    ELSE { Append(s, e) : s \in SeqsOfLen(S, n - 1), e \in S }

Range(s) == { s[i] : i \in DOMAIN s }

IdsOf(ps) == { ps[i].id : i \in DOMAIN ps }

\* distance(p1, p2)^2 for cgmath's Vector2::distance
DistanceSq(p1, p2) ==
    (p1.x - p2.x) * (p1.x - p2.x) + (p1.y - p2.y) * (p1.y - p2.y)

\* an off-by-boundary variant of the distance test: strict instead of inclusive
DistancePredicateStrict(p1, p2, rc) ==
    LET s == rc + p1.radius + p2.radius
    IN  s > 0 /\ DistanceSq(p1, p2) < s * s

\* a distance test on the squares that forgets the sign of the right-hand side
DistancePredicateSquared(p1, p2, rc) ==
    LET s == rc + p1.radius + p2.radius
    IN  DistanceSq(p1, p2) <= s * s

\* p1.position.distance(p2.position) - p1.radius - p2.radius <= self.r_c
DistancePredicate(p1, p2, rc) ==
    LET s == rc + p1.radius + p2.radius
    IN  s >= 0 /\ DistanceSq(p1, p2) <= s * s

----------------------------------------------------------------------------
(* NeighborMap *)

\* NeighborMap::default()
EmptyMap == << >>

\* self.map.entry(k).or_default().push(v)
EntryPush(m, k, v) ==
    IF k \in DOMAIN m THEN [m EXCEPT ![k] = Append(@, v)]
    ELSE m @@ (k :> <<v>>)

\* an add_pair that forgets the reverse direction
add_pair_one_way(m, p1, p2) == EntryPush(m, p1, p2)

\* NeighborMap::add_pair
add_pair(m, p1, p2) == EntryPush(EntryPush(m, p1, p2), p2, p1)

\* itertools tuple_combinations over n items: index pairs (i, j), i < j, in
\* lexicographic order
RECURSIVE CombinationsFrom(_, _, _)
CombinationsFrom(i, j, n) ==
    IF i >= n THEN <<>>
    ELSE IF j > n THEN CombinationsFrom(i + 1, i + 2, n)
    ELSE <<(<<i, j>>)>> \o CombinationsFrom(i, j + 1, n)

\* a pairing that also pairs every item with itself
RECURSIVE WithReplacementFrom(_, _, _)
WithReplacementFrom(i, j, n) ==
    IF i > n THEN <<>>
    ELSE IF j > n THEN WithReplacementFrom(i + 1, i + 1, n)
    ELSE <<(<<i, j>>)>> \o WithReplacementFrom(i, j + 1, n)

combinations_with_replacement(n) == WithReplacementFrom(1, 1, n)

tuple_combinations(n) == CombinationsFrom(1, 2, n)

\* the loop of generate_neighbor_map over the combinations still to visit
RECURSIVE GenerateLoop(_, _, _, _)
GenerateLoop(m, ps, rc, todo) ==
    IF todo = <<>> THEN m
    ELSE LET p1 == ps[Head(todo)[1]]
             p2 == ps[Head(todo)[2]]
             m2 == IF DistancePredicate(p1, p2, rc) THEN add_pair(m, p1.id, p2.id) ELSE m
         IN  GenerateLoop(m2, ps, rc, Tail(todo))

\* ParticlesData::generate_neighbor_map
generate_neighbor_map(ps, rc) ==
    GenerateLoop(EmptyMap, ps, rc, tuple_combinations(Len(ps)))

----------------------------------------------------------------------------
(* impl Display for NeighborMap *)

Digit(d) == CASE d = 0 -> "0" [] d = 1 -> "1" [] d = 2 -> "2" [] d = 3 -> "3"
              [] d = 4 -> "4" [] d = 5 -> "5" [] d = 6 -> "6" [] d = 7 -> "7"
              [] d = 8 -> "8" [] d = 9 -> "9"

\* usize::to_string: the decimal digits, most significant first
RECURSIVE to_string(_)
to_string(n) == IF n < 10 THEN <<Digit(n)>> ELSE to_string(n \div 10) \o <<Digit(n % 10)>>

\* Vec<String>::join(sep)
RECURSIVE join(_, _)
join(strs, sep) ==
    IF strs = <<>> THEN <<>>
    ELSE IF Len(strs) = 1 THEN strs[1]
    ELSE strs[1] \o sep \o join(Tail(strs), sep)

\* a line that leaves the particle's own id out
fmt_line_no_key(particle, neighbor_ids) ==
    join([i \in DOMAIN neighbor_ids |-> to_string(neighbor_ids[i])], <<" ">>) \o <<"\n">>

\* one iteration of fmt: iter::once(particle).chain(neighbors) joined by " ",
\* then '\n'
fmt_line(particle, neighbor_ids) ==
    LET ids == <<particle>> \o neighbor_ids
    IN  join([i \in DOMAIN ids |-> to_string(ids[i])], <<" ">>) \o <<"\n">>

\* fmt over the entries in the order `order` (a HashMap iterates in an
\* unspecified order)
RECURSIVE fmt(_, _)
fmt(m, order) ==
    IF order = <<>> THEN <<>>
    ELSE fmt_line(Head(order), m[Head(order)]) \o fmt(m, Tail(order))

\* the orders in which a HashMap with key set S may be iterated
Orders(S) == { o \in SeqsOfLen(S, Cardinality(S)) : Range(o) = S }

----------------------------------------------------------------------------
(* TP1 main: read the input, generate the neighbor map, print it.  A second  *)
(* kind of run, pc = "api", calls NeighborMap::add_pair directly on a map    *)
(* that starts as NeighborMap::default().                                    *)

\* the number of add_pair calls a map has received: each call pushes twice
RECURSIVE TotalEntries(_, _)
TotalEntries(m, keys) ==
    IF keys = {} THEN 0
    ELSE LET k == CHOOSE k \in keys : TRUE
         IN  Len(m[k]) + TotalEntries(m, keys \ {k})

Calls(m) == TotalEntries(m, DOMAIN m) \div 2

\* what the variables of the other programs hold while one program runs
NoCall == [kind |-> "none", map |-> <<>>]
NoInfo == [cyclic |-> FALSE, interaction_radius |-> 0, space_length |-> 0, grid_size |-> 0]
NoConfig == [space_length |-> 0, interaction_radius |-> 0, noise |-> 0]

Tp2Idle == config = NoConfig /\ state = <<>> /\ new_state = <<>> /\ time = 0
CimIdle == info = NoInfo /\ neighbors = NoCall
MeshIdle == mesh_size = 0 /\ mesh_model = <<>>
ParserIdle == file = <<>> /\ inner = <<>> /\ yielded = <<>>

InitMain ==
    /\ pc = "parsed"
    /\ Tp2Idle /\ CimIdle /\ MeshIdle /\ ParserIdle
    /\ \E n \in 1..MaxN : particles \in SeqsOfLen(ParticleValues, n)
    /\ r_c \in Cutoffs
    /\ map = EmptyMap
    /\ output = <<>>

InitApi ==
    /\ pc = "api"
    /\ Tp2Idle /\ CimIdle /\ MeshIdle /\ ParserIdle
    /\ particles = <<>>
    /\ r_c = 0
    /\ map = EmptyMap
    /\ output = <<>>

Init == InitMain \/ InitApi

\* let output = input.generate_neighbor_map();
Generate ==
    /\ pc = "parsed"
    /\ map' = generate_neighbor_map(particles, r_c)
    /\ pc' = "generated"
    /\ UNCHANGED <<particles, r_c, output, info, neighbors, tp2vars,
                 meshvars, parservars>>

\* print!("{output}");
PrintOutput ==
    /\ pc = "generated"
    /\ \E order \in Orders(DOMAIN map) : output' = fmt(map, order)
    /\ pc' = "printed"
    /\ UNCHANGED <<particles, r_c, map, info, neighbors, tp2vars,
                 meshvars, parservars>>

\* map.add_pair(a, b), called directly
AddPair ==
    /\ pc = "api"
    /\ Calls(map) < MaxCalls
    /\ \E a \in IdPool, b \in IdPool : map' = add_pair(map, a, b)
    /\ UNCHANGED <<pc, particles, r_c, output, info, neighbors, tp2vars,
                 meshvars, parservars>>

Next == Generate \/ PrintOutput \/ AddPair

Spec == Init /\ [][Next]_vars

----------------------------------------------------------------------------
(* The cell-index finder of the `cim` crate: SystemInfo, CimNeighborFinder,  *)
(* its NeighborMap and get_neighbors.  The crate's code is not among the     *)
(* sources; this part follows sections 3, 4.1, 4.2, 4.4 and 7 of the         *)
(* specification.  Only its callers are in the sources.                      *)

SystemInfo(cyclic, interaction_radius, space_length, grid_size) ==
    [cyclic |-> cyclic, interaction_radius |-> interaction_radius,
     space_length |-> space_length, grid_size |-> grid_size]

\* the results of a find_neighbors call
Failure == [kind |-> "failure", map |-> <<>>]
Found(m) == [kind |-> "map", map |-> m]

\* 4.1: floor(v / c) with c = space_length / grid_size, taken modulo
\* grid_size when cyclic
CellCoord(v, si) ==
    LET c == (v * si.grid_size) \div si.space_length
    IN  IF si.cyclic THEN c % si.grid_size ELSE c

CellOf(p, si) == <<CellCoord(p.x, si), CellCoord(p.y, si)>>

\* 4.1: the mapping from cell coordinate to the (indices of the) particles
\* located there
Bins(ps, si) ==
    LET cells == { CellOf(ps[i], si) : i \in DOMAIN ps }
    IN  [c \in cells |-> { i \in DOMAIN ps : CellOf(ps[i], si) = c }]

\* 4.2: the half-neighborhood: right, up, up-right, up-left
StencilOffsets == << <<1, 0>>, <<0, 1>>, <<1, 1>>, <<-1, 1>> >>

InGrid(cell, si) ==
    /\ cell[1] >= 0 /\ cell[1] < si.grid_size
    /\ cell[2] >= 0 /\ cell[2] < si.grid_size

\* 4.2: the cells a cell is paired with, one per offset, in the order of the
\* offsets: wrapped modulo grid_size when cyclic, skipped when outside the
\* grid otherwise
RECURSIVE OffsetCellsFrom(_, _, _)
OffsetCellsFrom(cell, si, k) ==
    IF k > Len(StencilOffsets) THEN <<>>
    ELSE LET raw == <<cell[1] + StencilOffsets[k][1], cell[2] + StencilOffsets[k][2]>>
             rest == OffsetCellsFrom(cell, si, k + 1)
         IN  IF si.cyclic
             THEN << <<raw[1] % si.grid_size, raw[2] % si.grid_size>> >> \o rest
             ELSE IF InGrid(raw, si) THEN <<raw>> \o rest ELSE rest

OffsetCells(cell, si) == OffsetCellsFrom(cell, si, 1)

\* 4.2: the particle pairs the enumerator tests: the combinations inside each
\* cell, and each particle of a cell with each particle of its offset cells
TestedPairs(ps, si) ==
    LET bins == Bins(ps, si)
        Intra(c) == { t \in bins[c] \X bins[c] : t[1] < t[2] }
        Inter(c) ==
            UNION { bins[c] \X bins[n] : n \in Range(OffsetCells(c, si)) \cap DOMAIN bins }
    IN  UNION { Intra(c) \cup Inter(c) : c \in DOMAIN bins }

Abs(a) == IF a < 0 THEN -a ELSE a
Min(a, b) == IF a <= b THEN a ELSE b

\* the separation along one axis; on the torus the shorter way round
AxisSeparation(a, b, si) ==
    LET d == Abs(a - b)
    IN  IF si.cyclic THEN Min(d, si.space_length - d) ELSE d

CimDistanceSq(p1, p2, si) ==
    LET dx == AxisSeparation(p1.x, p2.x, si)
        dy == AxisSeparation(p1.y, p2.y, si)
    IN  dx * dx + dy * dy

\* 4.2: euclidean_distance - p1.radius - p2.radius <= interaction_radius
CimPredicate(p1, p2, si) ==
    LET s == si.interaction_radius + p1.radius + p2.radius
    IN  s >= 0 /\ CimDistanceSq(p1, p2, si) <= s * s

\* 4.4: the map from id to the set of neighbor ids holding the accepted pairs
\* in both directions
CimMapOf(ps, accepted) ==
    LET keys == { ps[t[1]].id : t \in accepted } \cup { ps[t[2]].id : t \in accepted }
    IN  [k \in keys |->
            { ps[t[2]].id : t \in { u \in accepted : ps[u[1]].id = k } }
            \cup { ps[t[1]].id : t \in { u \in accepted : ps[u[2]].id = k } }]

\* 7, 4.1, 4.2: CimNeighborFinder::find_neighbors; grid_size = 0 fails before
\* any binning
find_neighbors(ps, si) ==
    IF si.grid_size = 0 THEN Failure
    ELSE Found(CimMapOf(ps, { t \in TestedPairs(ps, si) :
                                CimPredicate(ps[t[1]], ps[t[2]], si) }))

\* the elements of a finite set of numbers, ascending
RECURSIVE SetToSeq(_)
SetToSeq(S) ==
    IF S = {} THEN <<>>
    ELSE LET least == CHOOSE x \in S : \A y \in S : x <= y
         IN  <<least>> \o SetToSeq(S \ {least})

\* 4.4: get_neighbors(id): the neighbor ids, empty for an id the map does not
\* know
get_neighbors(m, id) == IF id \in DOMAIN m THEN SetToSeq(m[id]) ELSE <<>>

----------------------------------------------------------------------------
(* A direct find_neighbors call beside the brute-force finder on the same    *)
(* particles and cutoff (specification 8.1, 8.10)                            *)

\* the domain side of the direct calls
SpaceLengths == {4}
CimCutoffs == {0, 1, 2}

CimInputs(L) ==
    { <<Particle(1, p[1], p[2], r[1]), Particle(2, p[3], p[4], r[2])>> :
          p \in (0..(L - 1)) \X (0..(L - 1)) \X (0..(L - 1)) \X (0..(L - 1)),
          r \in Radii \X Radii }

InitHarness ==
    /\ pc = "harness"
    /\ \E L \in SpaceLengths :
          /\ particles \in CimInputs(L)
          /\ \E cyclic \in BOOLEAN, rc \in CimCutoffs, m \in 0..L :
                 info = SystemInfo(cyclic, rc, L, m)
    /\ r_c = info.interaction_radius
    /\ map = EmptyMap
    /\ output = <<>>
    /\ neighbors = NoCall
    /\ Tp2Idle /\ MeshIdle /\ ParserIdle

\* both finders on the same input
Compare ==
    /\ pc = "harness"
    /\ neighbors' = find_neighbors(particles, info)
    /\ map' = generate_neighbor_map(particles, r_c)
    /\ pc' = "compared"
    /\ UNCHANGED <<particles, r_c, output, info, tp2vars,
                 meshvars, parservars>>

----------------------------------------------------------------------------
(* TP2 run: the Vicsek loop.  A velocity has one of eight directions; the    *)
(* angles of the source (atan2, the uniform noise, Rotation2) are counted    *)
(* in eighths of a turn, and a particle moves by its direction vector.       *)
(* Positions, lengths and the cutoff are integers that f64 arithmetic with   *)
(* SignificandBits digits rounds.                                            *)

Dirs == << <<1, 0>>, <<1, 1>>, <<0, 1>>, <<-1, 1>>, <<-1, 0>>, <<-1, -1>>, <<0, -1>>, <<1, -1>> >>

Sign(a) == IF a > 0 THEN 1 ELSE IF a < 0 THEN -1 ELSE 0

\* f64::atan2(y, x) in eighths of a turn; atan2(0, 0) = 0
atan2(y, x) ==
    IF x = 0 /\ y = 0 THEN 0
    ELSE (CHOOSE k \in DOMAIN Dirs : Dirs[k] = <<Sign(x), Sign(y)>>) - 1

\* Rotation2::new(angle).transform_vector(&Vector2::new(0.03, 0.0))
Rotate(angle) == Dirs[(angle % 8) + 1]

\* Uniform::new_inclusive(-noise / 2, noise / 2)
NoiseSamples(noise) == (-(noise \div 2))..(noise \div 2)

\* f64 arithmetic rounds every result to the nearest number with a fixed
\* number of significant binary digits, ties to the even significand.  The
\* model keeps SignificandBits of them (f64 keeps 53), so that results that
\* have no exact representation occur among small integers.
RECURSIVE Pow2(_)
Pow2(k) == IF k = 0 THEN 1 ELSE 2 * Pow2(k - 1)

\* the integer nearest to a / b, ties to even (a >= 0, b > 0)
RoundHalfEven(a, b) ==
    LET q == a \div b
        r == a % b
    IN  IF 2 * r < b THEN q
        ELSE IF 2 * r > b THEN q + 1
        ELSE IF q % 2 = 0 THEN q ELSE q + 1

\* the representable number nearest to a / b (a >= 0, b > 0), as
\* <<numerator, denominator>>
RECURSIVE Nearest(_, _)
Nearest(a, b) ==
    IF a = 0 THEN <<0, 1>>
    ELSE IF a >= Pow2(SignificandBits) * b
         THEN LET half == Nearest(a, 2 * b) IN <<2 * half[1], half[2]>>
    ELSE IF a < Pow2(SignificandBits - 1) * b
         THEN LET twice == Nearest(2 * a, b) IN <<twice[1], 2 * twice[2]>>
    ELSE <<RoundHalfEven(a, b), 1>>

\* the representable number nearest to the integer v (an integer again)
Round(v) ==
    LET n == Nearest(Abs(v), 1)
    IN  IF v < 0 THEN -(n[1] \div n[2]) ELSE n[1] \div n[2]

\* f64 addition
f64_add(a, b) == Round(a + b)

\* (a / b).floor() for a >= 0, b > 0: the quotient is rounded, then floored
f64_div_floor(a, b) == LET q == Nearest(a, b) IN q[1] \div q[2]

\* f64's % (the remainder has the sign of a, and is exact)
f64_rem(a, b) == IF a >= 0 THEN a % Abs(b) ELSE -((-a) % Abs(b))

\* f64::rem_euclid: let r = self % rhs; if r < 0.0 { r + rhs.abs() } else { r }
rem_euclid(a, b) ==
    LET r == f64_rem(a, b)
    IN  IF r < 0 THEN f64_add(r, Abs(b)) ELSE r

VicsekParticle(id, x, y, vx, vy) == [id |-> id, x |-> x, y |-> y, vx |-> vx, vy |-> vy]

\* state.values().cloned().collect_vec(): the particles in key order, as the
\* point particles (radius 0) the finder sees
StateValues(st) ==
    LET ids == SetToSeq(DOMAIN st)
    IN  [i \in DOMAIN ids |-> Particle(ids[i], st[ids[i]].x, st[ids[i]].y, 0)]

\* a grid size that is never below one cell
GridSizeAtLeastOne(cfg) ==
    IF cfg.interaction_radius > 0 /\ cfg.space_length >= cfg.interaction_radius
    THEN cfg.space_length \div cfg.interaction_radius
    ELSE 1

\* (config.space_length / config.interaction_radius).floor() as usize; a
\* negative quotient saturates to 0 (interaction_radius = 0, whose quotient
\* is infinite, is not among the inputs)
GridSize(cfg) ==
    IF cfg.interaction_radius > 0
    THEN f64_div_floor(cfg.space_length, cfg.interaction_radius)
    ELSE 0

\* the same call on a bounded domain
RunSystemInfoBounded(cfg) ==
    SystemInfo(FALSE, cfg.interaction_radius, cfg.space_length, GridSize(cfg))

\* the SystemInfo the loop builds for every call
RunSystemInfo(cfg) ==
    SystemInfo(TRUE, cfg.interaction_radius, cfg.space_length, GridSize(cfg))

\* a loop over the ids the neighbor map knows
LoopIdsOfMap(st, nm) == DOMAIN nm

\* for (&id, particle) in &state
LoopIds(st, nm) == DOMAIN st

\* neighbors.get_neighbors(id).chain(iter::once(&id))
NeighborSeq(nm, id) == get_neighbors(nm, id) \o <<id>>

RECURSIVE SumOver(_, _, _)
SumOver(st, ids, field) ==
    IF ids = <<>> THEN 0
    ELSE st[Head(ids)][field] + SumOver(st, Tail(ids), field)

\* the body of the loop over the particles: the entry inserted into new_state
NewParticle(st, cfg, nm, id, noise) ==
    LET seq == NeighborSeq(nm, id)
        cos_sum == SumOver(st, seq, "vx")
        sin_sum == SumOver(st, seq, "vy")
        angle == atan2(sin_sum, cos_sum) + noise
        new_velocity == Rotate(angle)
    IN  VicsekParticle(id,
                       rem_euclid(f64_add(st[id].x, st[id].vx), cfg.space_length),
                       rem_euclid(f64_add(st[id].y, st[id].vy), cfg.space_length),
                       new_velocity[1], new_velocity[2])

\* the inputs of the runs
FlockIds == {1, 2}
RunLengths == {3}
RunCutoffs == {-1, 1, 2, 4}
RunNoises == {0, 2}
InitialDirs == { <<1, 0>>, <<0, -1>> }

InitRun ==
    /\ pc = "loop"
    /\ \E L \in RunLengths :
          /\ \E rc \in RunCutoffs, noise \in RunNoises :
                 config = [space_length |-> L, interaction_radius |-> rc, noise |-> noise]
          /\ \E pos \in [FlockIds -> (0..(L - 1)) \X (0..(L - 1))],
                vel \in [FlockIds -> InitialDirs] :
                 state = [id \in FlockIds |->
                             VicsekParticle(id, pos[id][1], pos[id][2], vel[id][1], vel[id][2])]
    /\ time = 0
    /\ new_state = <<>>
    /\ particles = <<>> /\ r_c = 0 /\ map = EmptyMap /\ output = <<>>
    /\ CimIdle /\ MeshIdle /\ ParserIdle

\* Frame { time, particles: state.values().cloned().collect_vec() }, as
\* printed
Frame(t, st) ==
    LET ids == SetToSeq(DOMAIN st)
    IN  [time |-> t, particles |-> [i \in DOMAIN ids |-> st[ids[i]]]]

\* one iteration of `loop` as a whole: find the neighbors, build new_state,
\* print the frame of the current state, install new_state (the variable
\* new_state, local to the iteration, is empty before and after).  A failed
\* find_neighbors call, or state[i] for an id that is no key, ends the run.
Tick ==
    /\ pc = "loop"
    /\ time < MaxTicks
    /\ LET found == find_neighbors(StateValues(state), RunSystemInfo(config))
           ids == LoopIds(state, found.map)
       IN  /\ neighbors' = found
           /\ IF \/ found.kind = "failure"
                 \/ \E id \in ids : \E i \in Range(NeighborSeq(found.map, id)) :
                        i \notin DOMAIN state
              THEN pc' = "failed" /\ UNCHANGED <<state, time, output>>
              ELSE /\ \E noise \in [ids -> NoiseSamples(config.noise)] :
                        state' = [id \in ids |->
                                     NewParticle(state, config, found.map, id, noise[id])]
                   /\ output' = Append(output, Frame(time, state))
                   /\ time' = time + 1
                   /\ pc' = "loop"
    /\ UNCHANGED <<particles, r_c, map, info, config, new_state,
                 meshvars, parservars>>

InitCim == InitHarness \/ InitRun

NextCim == Compare \/ Tick

SpecCim == InitCim /\ [][NextCim]_vars

----------------------------------------------------------------------------
(* TP2 run, statement by statement: the find_neighbors call at the top of    *)
(* `loop`, the iterations of `for (&id, particle) in &state`, and the end of *)
(* the iteration (print!, state = new_state, time += dt).                    *)

\* the inputs of the runs followed statement by statement: pairs of
\* space_length and interaction_radius, and the coordinates of the particles
LoopDomains == { <<3, -1>>, <<3, 1>>, <<3, 4>>, <<20, 3>>, <<20, 7>> }
LoopCoords(L) == {0, 1, (L + 1) \div 2}

InitLoop ==
    /\ pc = "find"
    /\ \E d \in LoopDomains : \E L \in {d[1]} :
          /\ \E noise \in RunNoises :
                 config = [space_length |-> L, interaction_radius |-> d[2], noise |-> noise]
          /\ \E pos \in [FlockIds -> LoopCoords(L) \X LoopCoords(L)],
                vel \in [FlockIds -> InitialDirs] :
                 state = [id \in FlockIds |->
                             VicsekParticle(id, pos[id][1], pos[id][2], vel[id][1], vel[id][2])]
    /\ time = 0
    /\ new_state = <<>>
    /\ particles = <<>> /\ r_c = 0 /\ map = EmptyMap /\ output = <<>>
    /\ CimIdle /\ MeshIdle /\ ParserIdle

\* the keys of state the for loop has not visited yet
Remaining(st, ns) == DOMAIN st \ DOMAIN ns

\* a for loop that ends as soon as new_state holds an entry
LoopDoneEarly(st, ns) == ns # <<>>

\* the iterator of `for (&id, particle) in &state` is exhausted
LoopDone(st, ns) == Remaining(st, ns) = {}

\* a read that sees the entries already written in this iteration
UpdateSourceInPlace(st, ns) == ns @@ st

\* what the loop body reads: `state` (state[i], particle.position,
\* particle.velocity), never new_state
UpdateSource(st, ns) == st

\* lines 36-47: let m; let neighbors = find_neighbors(.., SystemInfo {..});
\* let mut new_state (info keeps the SystemInfo of the call)
FindNeighbors ==
    /\ pc = "find"
    /\ time < MaxTicks
    /\ info' = RunSystemInfo(config)
    /\ neighbors' = find_neighbors(StateValues(state), info')
    /\ new_state' = <<>>
    /\ pc' = IF neighbors'.kind = "failure" THEN "failed" ELSE "for"
    /\ UNCHANGED <<particles, r_c, map, output, config, state, time,
                 meshvars, parservars>>

\* lines 48-76: one iteration of the for loop, for the least key not yet
\* visited (a BTreeMap iterates in key order)
UpdateParticle ==
    /\ pc = "for"
    /\ ~LoopDone(state, new_state)
    /\ LET rest == Remaining(state, new_state)
           id == CHOOSE i \in rest : \A j \in rest : i <= j
       IN  IF \E i \in Range(NeighborSeq(neighbors.map, id)) : i \notin DOMAIN state
           THEN pc' = "failed" /\ UNCHANGED new_state
           ELSE /\ \E noise \in NoiseSamples(config.noise) :
                     new_state' = new_state @@
                         (id :> NewParticle(UpdateSource(state, new_state), config,
                                            neighbors.map, id, noise))
                /\ pc' = "for"
    /\ UNCHANGED <<particles, r_c, map, output, info, neighbors, config, state, time,
                 meshvars, parservars>>

\* lines 77-85: print the frame of state, state = new_state (a move),
\* time += dt
InstallState ==
    /\ pc = "for"
    /\ LoopDone(state, new_state)
    /\ output' = Append(output, Frame(time, state))
    /\ state' = new_state
    /\ new_state' = <<>>
    /\ time' = time + 1
    /\ pc' = "find"
    /\ UNCHANGED <<particles, r_c, map, info, neighbors, config,
                 meshvars, parservars>>

NextLoop == FindNeighbors \/ UpdateParticle \/ InstallState

SpecLoop == InitLoop /\ [][NextLoop]_vars

----------------------------------------------------------------------------
(* Properties of the brute-force finder and of NeighborMap *)

\* the neighbor list of id in m, empty when id is no key
NeighborsOf(m, id) == IF id \in DOMAIN m THEN m[id] ELSE <<>>

Occurrences(s, v) == Cardinality({ i \in DOMAIN s : s[i] = v })

UniqueIds(ps) == \A i, j \in DOMAIN ps : ps[i].id = ps[j].id => i = j

\* the finder has returned (printing leaves the map as it is)
Generated == pc = "generated"

\* surface distance within the cutoff, stated on its own: the centre distance
\* is at most r_c + radius1 + radius2
SurfaceWithin(p1, p2, rc) ==
    \E s \in {rc + p1.radius + p2.radius} :
        /\ ~(s < 0)
        /\ ~(s * s < (p2.x - p1.x) * (p2.x - p1.x) + (p2.y - p1.y) * (p2.y - p1.y))

\* C3: the brute-force finder visits each of the C(N,2) unordered pairs of the
\* particle list exactly once, and b is listed as a neighbor of a exactly when
\* some visited pair with these two ids has surface distance <= r_c (equality
\* included).
C3_BruteForceExact ==
    Generated =>
        LET n == Len(particles)
            c == tuple_combinations(n)
        IN  /\ 2 * Len(c) = n * (n - 1)
            /\ \A i, j \in 1..n :
                   i < j => Cardinality({ k \in DOMAIN c : c[k] = <<i, j>> }) = 1
            /\ \A a, b \in IdPool :
                   (b \in Range(NeighborsOf(map, a)))
                   <=> \E i, j \in 1..n :
                          /\ i < j
                          /\ {particles[i].id, particles[j].id} = {a, b}
                          /\ SurfaceWithin(particles[i], particles[j], r_c)

\* three particles, one pair exactly at the cutoff and accepted, one pair
\* beyond it and rejected
C3_Witness ==
    /\ pc = "generated"
    /\ Len(particles) = 3
    /\ UniqueIds(particles)
    /\ \E i, j, k \in 1..3 :
          /\ i < j
          /\ LET s == r_c + particles[i].radius + particles[j].radius
             IN  s > 0 /\ DistanceSq(particles[i], particles[j]) = s * s
          /\ particles[j].id \in Range(NeighborsOf(map, particles[i].id))
          /\ k # i
          /\ ~SurfaceWithin(particles[i], particles[k], r_c)
          /\ particles[k].id \notin Range(NeighborsOf(map, particles[i].id))

\* C4: in every map built by add_pair calls, and in the map the finder
\* returns, j is a neighbor of i exactly when i is a neighbor of j.
C4_Symmetry ==
    \A i, j \in IdPool :
        (j \in Range(NeighborsOf(map, i))) <=> (i \in Range(NeighborsOf(map, j)))

\* a map that received several add_pair calls, with a key that has two
\* different neighbors
C4_Witness ==
    /\ pc = "api"
    /\ Calls(map) >= 2
    /\ \E i \in DOMAIN map : Cardinality(Range(map[i]) \ {i}) >= 2

C6_NoDuplicates ==
    Generated =>
        \A i, j \in IdPool : Occurrences(NeighborsOf(map, i), j) <= 1

\* for particle sets with unique ids the finder's map has no duplicate: every
\* pair is visited once (this does not rest on add_pair, which never
\* deduplicates)
NoDuplicatesForUniqueIds ==
    (Generated /\ UniqueIds(particles)) =>
        \A i, j \in IdPool : Occurrences(NeighborsOf(map, i), j) <= 1

\* C7: an add_pair(a, b) call on a map that already holds the pair leaves the
\* map unchanged.
C7_AddPairIdempotent ==
    [][\A a, b \in IdPool :
          ( /\ pc = "api"
            /\ b \in Range(NeighborsOf(map, a))
            /\ a \in Range(NeighborsOf(map, b))
            /\ map' = add_pair(map, a, b) )
          => map' = map]_vars

----------------------------------------------------------------------------
(* Reading the printed text back *)

\* the pieces of s between occurrences of sep (k separators give k + 1 pieces)
RECURSIVE SplitFrom(_, _, _, _)
SplitFrom(s, sep, i, piece) ==
    IF i > Len(s) THEN <<piece>>
    ELSE IF s[i] = sep THEN <<piece>> \o SplitFrom(s, sep, i + 1, <<>>)
    ELSE SplitFrom(s, sep, i + 1, Append(piece, s[i]))

SplitOn(s, sep) == SplitFrom(s, sep, 1, <<>>)

DigitValue(c) ==
    CASE c = "0" -> 0 [] c = "1" -> 1 [] c = "2" -> 2 [] c = "3" -> 3 [] c = "4" -> 4
      [] c = "5" -> 5 [] c = "6" -> 6 [] c = "7" -> 7 [] c = "8" -> 8 [] c = "9" -> 9
      [] OTHER -> -1

\* the number a token denotes, -1 when it is not a nonempty digit string
RECURSIVE ParseDigits(_, _, _)
ParseDigits(tok, i, acc) ==
    IF i > Len(tok) THEN acc
    ELSE IF DigitValue(tok[i]) < 0 THEN -1
    ELSE ParseDigits(tok, i + 1, 10 * acc + DigitValue(tok[i]))

ParseNat(tok) == IF tok = <<>> THEN -1 ELSE ParseDigits(tok, 1, 0)

\* the numbers of a line whose tokens are separated by single spaces
ParseLine(line) ==
    LET toks == SplitOn(line, " ") IN [i \in DOMAIN toks |-> ParseNat(toks[i])]

\* the newline-terminated lines of a text
TextLines(text) ==
    LET pieces == SplitOn(text, "\n") IN SubSeq(pieces, 1, Len(pieces) - 1)

\* C9: the printed text is a sequence of newline-terminated lines, one for each
\* key of the map and hence one for each particle with at least one neighbor,
\* none for a particle without neighbors; a line reads, single-space
\* separated, as the particle id followed by exactly its neighbor list.
C9_Serialization ==
    pc = "printed" =>
        LET ls == TextLines(output)
            rows == { ParseLine(ls[i]) : i \in DOMAIN ls }
        IN  /\ output = <<>> \/ output[Len(output)] = "\n"
            /\ Len(ls) = Cardinality(DOMAIN map)
            /\ rows = { <<k>> \o map[k] : k \in DOMAIN map }
            /\ \A k \in DOMAIN map : Len(map[k]) >= 1
            /\ \A q \in DOMAIN particles :
                   NeighborsOf(map, particles[q].id) = <<>>
                   => \A row \in rows : row[1] # particles[q].id

\* a printed map with two lines, one of them for the two-digit id, and a
\* particle that has no neighbor and no line
C9_Witness ==
    /\ pc = "printed"
    /\ Cardinality(DOMAIN map) = 2
    /\ 12 \in DOMAIN map
    /\ \E q \in DOMAIN particles : particles[q].id \notin DOMAIN map
    /\ Len(TextLines(output)) = 2

----------------------------------------------------------------------------
(* Properties of the cell-index finder and of its calls *)

\* the unordered pairs a Vec-valued and a set-valued neighbor map hold
PairsOfVecMap(m) == UNION { { {i, j} : j \in Range(m[i]) } : i \in DOMAIN m }
PairsOfSetMap(m) == UNION { { {i, j} : j \in m[i] } : i \in DOMAIN m }

\* space_length / grid_size >= d
CellSideAtLeast(si, d) == si.grid_size >= 1 /\ si.space_length >= d * si.grid_size

\* every pair's cutoff plus radii fits into one cell side
CellSideCoversRadii(ps, si) ==
    \A i, j \in DOMAIN ps :
        i # j => CellSideAtLeast(si, si.interaction_radius + ps[i].radius + ps[j].radius)

\* some periodic image of p2 has surface distance <= rc from p1
ToroidalWithin(p1, p2, rc, L) ==
    \E kx, ky \in {-1, 0, 1} :
        LET dx == p2.x + kx * L - p1.x
            dy == p2.y + ky * L - p1.y
            s == rc + p1.radius + p2.radius
        IN  ~(s < 0) /\ ~(s * s < dx * dx + dy * dy)

PeriodicCall(ps, si, result) ==
    \A i, j \in DOMAIN ps :
        i # j =>
            /\ (si.cyclic /\ ToroidalWithin(ps[i], ps[j], si.interaction_radius, si.space_length))
               => (result.kind = "map" /\ ps[j].id \in Range(get_neighbors(result.map, ps[i].id)))
            /\ (~si.cyclic /\ result.kind = "map"
                  /\ ps[j].id \in Range(get_neighbors(result.map, ps[i].id)))
               => SurfaceWithin(ps[i], ps[j], si.interaction_radius)

\* the point particles of a Vicsek state, stated on their own
PointParticles(st) ==
    LET ids == SetToSeq(DOMAIN st)
    IN  [k \in DOMAIN ids |->
            [id |-> ids[k], x |-> st[ids[k]].x, y |-> st[ids[k]].y, radius |-> 0]]

\* in a tick that finds a neighbor map, the call was periodic
PeriodicTick ==
    (pc = "loop" /\ neighbors'.kind = "map" /\ time' = time + 1)
    => \A i, j \in DOMAIN PointParticles(state) :
           (i # j /\ ToroidalWithin(PointParticles(state)[i], PointParticles(state)[j],
                                    config.interaction_radius, config.space_length))
           => PointParticles(state)[j].id
                  \in Range(get_neighbors(neighbors'.map, PointParticles(state)[i].id))

----------------------------------------------------------------------------
(* The degenerate cutoff *)

\* no two particles touch or overlap: every centre distance exceeds the sum
\* of the two radii
NoContact(ps) ==
    \A i, j \in DOMAIN ps :
        i < j => DistanceSq(ps[i], ps[j])
                     > (ps[i].radius + ps[j].radius) * (ps[i].radius + ps[j].radius)

\* C11 as stated: for every particle set with non-negative radii, the finder
\* called with a cutoff <= 0 returns, without an error, the empty map.
C11_DegenerateCutoff ==
    [][ (pc = "parsed" /\ r_c <= 0 /\ \A i \in DOMAIN particles : particles[i].radius >= 0)
        => (pc' = "generated" /\ map' = EmptyMap) ]_vars

\* C11 amended: the same for particle sets in which no two particles touch or
\* overlap.
C11_DegenerateCutoffNoContact ==
    [][ (pc = "parsed" /\ r_c <= 0 /\ NoContact(particles)
           /\ \A i \in DOMAIN particles : particles[i].radius >= 0)
        => (pc' = "generated" /\ map' = EmptyMap) ]_vars

\* two separate particles, one of them with a radius, and a cutoff of zero:
\* the finder has returned the empty map
C11_Witness ==
    /\ pc = "generated"
    /\ r_c = 0
    /\ Len(particles) = 2
    /\ NoContact(particles)
    /\ \E i \in DOMAIN particles : particles[i].radius = 1
    /\ map = EmptyMap

----------------------------------------------------------------------------
(* Properties of the Vicsek loop, statement by statement *)

\* the neighbor map of the current state, as the loop asks for it
MapOfState == find_neighbors(StateValues(state), RunSystemInfo(config))

\* C12: a find_neighbors call starts only at the top of `loop`, with no update
\* pending and every earlier tick printed and installed; the for loop works
\* with the neighbor map of the state it reads; and a tick ends only when
\* that map is computed and every particle of the state has its entry in
\* new_state, which then becomes the state.
C12_SequentialTicks ==
    [][ /\ (neighbors' # neighbors \/ (pc = "find" /\ pc' # "find"))
           => (pc = "find" /\ new_state = <<>> /\ Len(output) = time /\ time' = time)
        /\ (pc = "for")
           => (neighbors = MapOfState /\ neighbors' = neighbors /\ neighbors.kind = "map")
        /\ (time' # time)
           => /\ pc = "for" /\ pc' = "find"
              /\ time' = time + 1
              /\ DOMAIN new_state = DOMAIN state
              /\ state' = new_state ]_vars

\* the second tick under way: the first tick is installed and printed, one
\* particle of two has its entry
C12_Witness ==
    /\ pc = "for"
    /\ time = 1
    /\ Len(output) = 1
    /\ Cardinality(DOMAIN state) = 2
    /\ Cardinality(DOMAIN new_state) = 1

\* the entries a particle may get from the state `old` alone: the position
\* moved by the old velocity and wrapped, the heading of the old velocities
\* of its neighbors and itself, turned by a noise sample
SynchronousEntries(old, cfg, nm, id) ==
    LET ids == get_neighbors(nm, id) \o <<id>>
        x_sum == SumOver(old, ids, "vx")
        y_sum == SumOver(old, ids, "vy")
    IN  { [id |-> id,
           x |-> rem_euclid(f64_add(old[id].x, old[id].vx), cfg.space_length),
           y |-> rem_euclid(f64_add(old[id].y, old[id].vy), cfg.space_length),
           vx |-> Rotate(atan2(y_sum, x_sum) + n)[1],
           vy |-> Rotate(atan2(y_sum, x_sum) + n)[2]] : n \in NoiseSamples(cfg.noise) }

\* C15: every entry written to new_state is computed from the state of the
\* previous tick alone, the entries written earlier in the tick and the state
\* stay as they are, and the state a tick installs has the ids of the state
\* before, each with an entry computed from that state.
C15_SynchronousUpdate ==
    [][ /\ (pc = "for" /\ pc' = "for" /\ new_state' # new_state)
           => /\ state' = state
              /\ \A id \in DOMAIN new_state : new_state'[id] = new_state[id]
              /\ \A id \in DOMAIN new_state' \ DOMAIN new_state :
                     new_state'[id] \in SynchronousEntries(state, config, neighbors.map, id)
        /\ (time' = time + 1)
           => /\ DOMAIN state' = DOMAIN state
              /\ \A id \in DOMAIN state :
                     state'[id] \in SynchronousEntries(state, config, neighbors.map, id) ]_vars

\* a tick installed for two particles that were neighbors with different
\* headings
C15_Witness ==
    /\ pc = "find"
    /\ time = 1
    /\ DOMAIN state = FlockIds
    /\ neighbors.kind = "map"
    /\ DOMAIN neighbors.map = FlockIds
    /\ LET before == output[1].particles
       IN  <<before[1].vx, before[1].vy>> # <<before[2].vx, before[2].vy>>

----------------------------------------------------------------------------
(* The half-stencil walk, counted *)

\* how often the walk pairs cell a with the offset cell b while it stands on a
PartnerCount(a, b, si) ==
    Cardinality({ k \in DOMAIN OffsetCells(a, si) : OffsetCells(a, si)[k] = b })

\* 4.2: how often the walk visits the unordered pair of cells {a, b}: once
\* for a with itself, and once for every offset that leads from one to the
\* other
VisitCount(a, b, si) ==
    IF a = b THEN 1 + PartnerCount(a, a, si)
    ELSE PartnerCount(a, b, si) + PartnerCount(b, a, si)

\* 4.2: how often the distance test runs on the particles i and j of ps (on
\* i and itself when i = j): the combinations inside a cell, and each
\* particle of a cell with each particle of each offset cell
TestCount(ps, i, j, si) ==
    LET a == CellOf(ps[i], si)
        b == CellOf(ps[j], si)
    IN  IF a # b THEN VisitCount(a, b, si)
        ELSE IF i # j THEN 1 + 2 * PartnerCount(a, a, si)
        ELSE PartnerCount(a, a, si)

\* the counted walk tests the pairs of particles TestedPairs holds
TestCountAgrees ==
    pc = "compared" /\ info.grid_size >= 1 =>
        \A i, j \in DOMAIN particles :
            (TestCount(particles, i, j, info) > 0)
            <=> ({<<i, j>>, <<j, i>>} \cap TestedPairs(particles, info) # {})

GridCells(si) == (0..(si.grid_size - 1)) \X (0..(si.grid_size - 1))

\* b is another cell of the 3x3 block around a (around the torus when cyclic)
AdjacentCells(a, b, si) ==
    LET near(u, v) == \/ Abs(u - v) <= 1
                      \/ si.cyclic /\ Abs(u - v) = si.grid_size - 1
    IN  a # b /\ near(a[1], b[1]) /\ near(a[2], b[2])

\* C13: on every grid of at least one cell a side, bounded or cyclic, the walk
\* visits each cell with itself once, each unordered pair of adjacent cells
\* once and no other pair of cells, so that it tests no pair of particles
\* twice and no particle against itself.
C13_HalfStencilExact ==
    (pc = "compared" /\ info.grid_size >= 1) =>
        /\ \A i \in DOMAIN particles : \A b \in GridCells(info) :
               LET a == CellOf(particles[i], info)
               IN  VisitCount(a, b, info)
                       = IF a = b \/ AdjacentCells(a, b, info) THEN 1 ELSE 0
        /\ \A i, j \in DOMAIN particles :
               TestCount(particles, i, j, info) <= (IF i = j THEN 0 ELSE 1)

\* the same on bounded grids and on cyclic grids of at least three cells a
\* side
HalfStencilExactFromThree ==
    (pc = "compared" /\ info.grid_size >= 1 /\ (info.cyclic => info.grid_size >= 3)) =>
        /\ \A i \in DOMAIN particles : \A b \in GridCells(info) :
               LET a == CellOf(particles[i], info)
               IN  VisitCount(a, b, info)
                       = IF a = b \/ AdjacentCells(a, b, info) THEN 1 ELSE 0
        /\ \A i, j \in DOMAIN particles :
               TestCount(particles, i, j, info) <= (IF i = j THEN 0 ELSE 1)

----------------------------------------------------------------------------
(* The grid and the positions of the Vicsek loop *)

\* C14: every find_neighbors call of the loop is cyclic on the run's domain
\* with grid_size = floor(space_length / interaction_radius), and whenever
\* that grid_size is >= 1 the cell side space_length / grid_size is at
\* least the interaction radius.
C14_StencilSufficiency ==
    (pc \in {"for", "failed"}) =>
        /\ info.cyclic
        /\ info.space_length = config.space_length
        /\ info.interaction_radius = config.interaction_radius
        /\ config.interaction_radius > 0
           => info.grid_size = config.space_length \div config.interaction_radius
        /\ info.grid_size >= 1
           => info.space_length >= info.interaction_radius * info.grid_size

\* the grid size of a call exceeds the exact floor by at most one cell
GridSizeWithinOne ==
    (pc \in {"for", "failed"} /\ config.interaction_radius > 0) =>
        LET exact == config.space_length \div config.interaction_radius
        IN  info.grid_size \in {exact, exact + 1}

\* C16: after every tick each coordinate of every position is in
\* [0, space_length).
C16_PositionWrap ==
    time >= 1 =>
        \A id \in DOMAIN state :
            /\ 0 <= state[id].x /\ state[id].x < config.space_length
            /\ 0 <= state[id].y /\ state[id].y < config.space_length

\* after every tick each coordinate is in [0, space_length], the upper end
\* included
PositionWrapClosed ==
    time >= 1 =>
        \A id \in DOMAIN state :
            /\ 0 <= state[id].x /\ state[id].x <= config.space_length
            /\ 0 <= state[id].y /\ state[id].y <= config.space_length

\* ---------------------------------------------------------------------
\* mesh: the cloth of links (src/mesh/src/main.rs).  Lengths are counted
\* in units of 1e-4 and forces in units of 1e-4 as well, so that the
\* stiffness and the breaking threshold are whole numbers.  The node
\* positions are left to the integrator: a step sees them only through the
\* length of each link, which is chosen here for one link at the origin
\* corner while every other link is at its natural length.
\* ---------------------------------------------------------------------

\* the largest usize of the model (usize::MAX)
UsizeMax == 15
\* the links that may be stretched are the first MaxSpan links of the first
\* row and of the first column
MaxSpan == 2
\* const K
K == 1000
\* the breaking threshold of link_force (0.3)
BreakingForce == 3000
\* let initial_mesh_size
initial_mesh_size == 10

\* Option<Vector2>, the force along the link
None == <<>>
Some(v) == <<v>>
Max(a, b) == IF a >= b THEN a ELSE b
saturating_add(a, b) == Min(a + b, UsizeMax)
saturating_sub(a, b) == Max(a - b, 0)

\* the stretch of the chosen link: compressed, at rest, below the
\* threshold, at the threshold, above it
Expansions == {-1, 0, 2, 3, 4}

\* link_force, from the distance of the two nodes and the natural length
link_force(dist, natural_length) ==
    LET expansion == dist - natural_length
    IN  IF expansion > 0
        THEN LET force == K * expansion
             IN  IF force < BreakingForce THEN Some(force) ELSE None
        ELSE Some(0)

\* the index sets of the two edge arrays, (row, column)
HorizontalIndex(size) == (0 .. size - 1) \X (0 .. size - 2)
VerticalIndex(size) == (0 .. size - 2) \X (0 .. size - 1)

\* 0.1 / (mesh_size - 1), the length argument of step
NaturalLength(size) == 1000 \div (size - 1)

initial_model(size) ==
    [ horizontal_edges |-> [e \in HorizontalIndex(size) |-> TRUE],
      vertical_edges   |-> [e \in VerticalIndex(size) |-> TRUE],
      horizontal_force |-> [e \in HorizontalIndex(size) |-> None],
      vertical_force   |-> [e \in VerticalIndex(size) |-> None] ]

\* the closure of step with the edge test left out
calculate_apply_acceleration_unflagged(edge, dist, natural_length) ==
    LET force == link_force(dist, natural_length)
    IN  [edge |-> force # None, force |-> force]

\* the closure of step, for one edge: the flag it leaves and the force it
\* applied to the two nodes (None: no force applied)
calculate_apply_acceleration(edge, dist, natural_length) ==
    IF edge
    THEN LET force == link_force(dist, natural_length)
         IN  IF force # None
             THEN [edge |-> TRUE, force |-> force]
             ELSE [edge |-> FALSE, force |-> None]
    ELSE [edge |-> FALSE, force |-> None]

\* Minus without the lower limit
MinusSizeUnlimited(size) == saturating_sub(size, 5)

PlusSize(size) == saturating_add(size, 5)
MinusSize(size) == Max(saturating_sub(size, 5), 2)

\* model()
InitMesh ==
    /\ pc = "model"
    /\ mesh_size = initial_mesh_size
    /\ mesh_model = initial_model(initial_mesh_size)
    /\ particles = <<>> /\ r_c = 0 /\ map = EmptyMap /\ output = <<>>
    /\ CimIdle /\ Tp2Idle /\ ParserIdle

\* event, Key::R
KeyR ==
    /\ pc \in {"model", "event", "update"}
    /\ pc' = "event"
    /\ mesh_model' = initial_model(mesh_size)
    /\ UNCHANGED <<mesh_size, particles, r_c, map, output, info, neighbors,
                   tp2vars, parservars>>

\* event, Key::Plus
KeyPlus ==
    /\ pc \in {"model", "event", "update"}
    /\ pc' = "event"
    /\ mesh_size' = PlusSize(mesh_size)
    /\ mesh_model' = initial_model(mesh_size')
    /\ UNCHANGED <<particles, r_c, map, output, info, neighbors,
                   tp2vars, parservars>>

\* event, Key::Minus
KeyMinus ==
    /\ pc \in {"model", "event", "update"}
    /\ pc' = "event"
    /\ mesh_size' = MinusSize(mesh_size)
    /\ mesh_model' = initial_model(mesh_size')
    /\ UNCHANGED <<particles, r_c, map, output, info, neighbors,
                   tp2vars, parservars>>

\* one call of step from update: the closure over every horizontal edge,
\* then over every vertical edge
Step ==
    /\ pc \in {"model", "event", "update"}
    /\ pc' = "update"
    /\ \E stretched \in
            { <<kind, e>> \in {"h"} \X HorizontalIndex(mesh_size) :
                  e[1] = 0 /\ e[2] < MaxSpan }
            \cup { <<kind, e>> \in {"v"} \X VerticalIndex(mesh_size) :
                  e[1] < MaxSpan /\ e[2] = 0 } :
       \E expansion \in Expansions :
          LET natural_length == NaturalLength(mesh_size)
              dist(kind, e) ==
                  IF stretched = <<kind, e>>
                  THEN natural_length + expansion ELSE natural_length
              horizontal ==
                  [e \in HorizontalIndex(mesh_size) |->
                      calculate_apply_acceleration(
                          mesh_model.horizontal_edges[e], dist("h", e),
                          natural_length)]
              vertical ==
                  [e \in VerticalIndex(mesh_size) |->
                      calculate_apply_acceleration(
                          mesh_model.vertical_edges[e], dist("v", e),
                          natural_length)]
          IN  mesh_model' =
                  [ horizontal_edges |->
                        [e \in HorizontalIndex(mesh_size) |-> horizontal[e].edge],
                    vertical_edges |->
                        [e \in VerticalIndex(mesh_size) |-> vertical[e].edge],
                    horizontal_force |->
                        [e \in HorizontalIndex(mesh_size) |-> horizontal[e].force],
                    vertical_force |->
                        [e \in VerticalIndex(mesh_size) |-> vertical[e].force] ]
    /\ UNCHANGED <<mesh_size, particles, r_c, map, output, info, neighbors,
                   tp2vars, parservars>>

NextMesh == KeyR \/ KeyPlus \/ KeyMinus \/ Step

SpecMesh == InitMesh /\ [][NextMesh]_vars

\* ---------------------------------------------------------------------
\* C17, C18: the mesh
\* ---------------------------------------------------------------------

\* C17: a step never turns a false edge back to true and applies no force
\* along a false edge; a key event R, Plus or Minus rebuilds the model
\* with every edge true.
C17_EdgeBreakingMonotone ==
    [][ /\ pc' = "update" =>
             /\ \A e \in HorizontalIndex(mesh_size) :
                    ~mesh_model.horizontal_edges[e] =>
                        /\ ~mesh_model'.horizontal_edges[e]
                        /\ mesh_model'.horizontal_force[e] = None
             /\ \A e \in VerticalIndex(mesh_size) :
                    ~mesh_model.vertical_edges[e] =>
                        /\ ~mesh_model'.vertical_edges[e]
                        /\ mesh_model'.vertical_force[e] = None
        /\ pc' = "event" => mesh_model' = initial_model(mesh_size')
      ]_vars

\* an edge that is false after a step applied no force in it, and an edge
\* breaks only at or above the threshold
BrokenEdgeApplies ==
    pc = "update" =>
        /\ \A e \in HorizontalIndex(mesh_size) :
               mesh_model.horizontal_edges[e] <=> mesh_model.horizontal_force[e] # None
        /\ \A e \in VerticalIndex(mesh_size) :
               mesh_model.vertical_edges[e] <=> mesh_model.vertical_force[e] # None
        /\ \A e \in HorizontalIndex(mesh_size) :
               mesh_model.horizontal_force[e] # None =>
                   mesh_model.horizontal_force[e][1] < BreakingForce

\* a step has left a broken horizontal edge broken while the vertical link
\* beside it pulled below the threshold
C17_Witness ==
    /\ pc = "update"
    /\ ~mesh_model.horizontal_edges[<<0, 0>>]
    /\ mesh_model.horizontal_force[<<0, 0>>] = None
    /\ mesh_model.vertical_force[<<0, 0>>] # None
    /\ mesh_model.vertical_force[<<0, 0>>][1] > 0

\* C18: mesh_size is at least 2, so mesh_size - 1 is at least 1 as the
\* divisor of the link length and as the dimension of the edge arrays.
C18_MeshSizeAtLeastTwo ==
    pc \in {"model", "event", "update"} =>
        /\ mesh_size >= 2
        /\ mesh_size - 1 >= 1
        /\ HorizontalIndex(mesh_size) # {}
        /\ VerticalIndex(mesh_size) # {}
        /\ DOMAIN mesh_model.horizontal_edges = HorizontalIndex(mesh_size)
        /\ DOMAIN mesh_model.vertical_edges = VerticalIndex(mesh_size)

\* Minus was pressed at a size below 5 and the size stopped at the limit
C18_Witness ==
    /\ pc = "event"
    /\ mesh_size = 2
    /\ mesh_model = initial_model(2)

\* ---------------------------------------------------------------------
\* pool: the frame chunks of output_parser
\* (src/utils/pool/src/parser.rs).  A line is a sequence of characters.
\* ---------------------------------------------------------------------

\* the largest number of records written to a file
MaxRecords == 2
\* the largest count line of a record
MaxCount == 2

\* the first line after the count line of record r: its time
TimeLine(r) == to_string(r) \o <<".", "5">>
\* the line of ball k of record r: its id and a coordinate
BallLine(r, k) == to_string(k) \o <<" ">> \o to_string(r)

\* the count + 1 lines of record r that follow its count line
DataLines(r, count) ==
    <<TimeLine(r)>> \o [k \in 1 .. count |-> BallLine(r, k)]

RECURSIVE RecordLines(_, _)
\* the lines of the first n records of a file whose count lines are counts
RecordLines(counts, n) ==
    IF n = 0 THEN <<>>
    ELSE RecordLines(counts, n - 1)
             \o <<to_string(counts[n])>> \o DataLines(n, counts[n])

\* the range of the for loop with its end one short
ChunkLengthShort(count) == count

\* for _ in 0..count + 1
ChunkLength(count) == count + 1

\* output_parser(file): the Chunks iterator over the lines of a file of up
\* to MaxRecords records that has lost its last `cut` lines
InitParser ==
    /\ pc = "chunks"
    /\ \E n \in 0 .. MaxRecords :
       \E counts \in [1 .. n -> 0 .. MaxCount] :
       \E cut \in 0 .. Len(RecordLines(counts, n)) :
          LET all == RecordLines(counts, n)
          IN  file = [ counts |-> counts, cut |-> cut,
                       lines |-> SubSeq(all, 1, Len(all) - cut) ]
    /\ inner = file.lines
    /\ yielded = <<>>
    /\ particles = <<>> /\ r_c = 0 /\ map = EmptyMap /\ output = <<>>
    /\ CimIdle /\ Tp2Idle /\ MeshIdle

\* Chunks::next, called by the consumer until it returns None
ChunksNext ==
    /\ pc = "chunks"
    /\ IF inner = <<>>
       THEN /\ yielded' = Append(yielded, None)
            /\ inner' = inner
            /\ pc' = "end"
       ELSE LET count == ParseNat(Head(inner))
                rest == Tail(inner)
            IN  IF count < 0
                THEN /\ pc' = "panicked"
                     /\ inner' = rest
                     /\ yielded' = yielded
                ELSE IF Len(rest) >= ChunkLength(count)
                THEN /\ yielded' =
                            Append(yielded, Some(SubSeq(rest, 1, ChunkLength(count))))
                     /\ inner' = SubSeq(rest, ChunkLength(count) + 1, Len(rest))
                     /\ pc' = "chunks"
                ELSE /\ yielded' = Append(yielded, None)
                     /\ inner' = <<>>
                     /\ pc' = "end"
    /\ UNCHANGED <<file, particles, r_c, map, output, info, neighbors,
                   tp2vars, meshvars>>

NextParser == ChunksNext

SpecParser == InitParser /\ [][NextParser]_vars

\* ---------------------------------------------------------------------
\* C19: frame chunks
\* ---------------------------------------------------------------------

RECURSIVE CompleteRecords(_, _, _)
\* the number of records among the first n that are whole within len lines
CompleteRecords(counts, n, len) ==
    IF n = 0 THEN 0
    ELSE IF Len(RecordLines(counts, n)) <= len THEN n
    ELSE CompleteRecords(counts, n - 1, len)

\* C19: the i-th value yielded is the chunk of the count + 1 lines of the
\* i-th record, for every record that is whole in the file; the value for
\* the first record that is not whole, or for the end of the file, is None
\* and is the last one; no line is read as a count that is not one.
C19_FrameChunks ==
    pc \in {"chunks", "end", "panicked"} =>
        LET whole == CompleteRecords(file.counts, Len(file.counts), Len(file.lines))
        IN  /\ pc # "panicked"
            /\ \A i \in 1 .. Len(yielded) :
                   IF i <= whole
                   THEN yielded[i] = Some(DataLines(i, file.counts[i]))
                   ELSE /\ yielded[i] = None
                        /\ i = whole + 1
                        /\ i = Len(yielded)
            /\ pc = "end" => Len(yielded) = whole + 1
            /\ pc = "chunks" => Len(yielded) <= whole

\* the file ends inside its second record: the first record was yielded
\* whole and the second call returned None
C19_Witness ==
    /\ pc = "end"
    /\ Len(file.counts) = 2
    /\ Len(file.lines) > Len(RecordLines(file.counts, 1)) + 1
    /\ Len(file.lines) < Len(RecordLines(file.counts, 2))
    /\ Len(yielded) = 2
    /\ yielded[1] = Some(DataLines(1, file.counts[1]))
    /\ Len(yielded[1][1]) = file.counts[1] + 1
    /\ yielded[2] = None

====
